---- MODULE Spec2Model ----
(***************************************************************************)
(* Model of the finnhub websocket client (src/src/lib.rs): the session     *)
(* state (api key, tracked symbols, bounded per-symbol trade history), the *)
(* single websocket task slot, the persisted blob, and Model::update with  *)
(* one action per message it handles.                                      *)
(*                                                                         *)
(* The collaborators the component talks to are part of the state:        *)
(*   storage    what local storage holds under STATE_STORAGE_KEY           *)
(*   transport  the ready state of the socket the last successful connect  *)
(*              created, whether or not its task is still held: connecting,*)
(*              open, or none once it has closed or failed (and before the *)
(*              first connect)                                             *)
(*   subscribed what the feed has been asked to stream on that socket      *)
(*   view       what the last render showed (the buttons a user can press) *)
(*   last       what the last handler did: requests sent, prompts shown    *)
(* The callbacks given to WebSocketService::connect send their messages to *)
(* the component; nothing in the component withdraws them when the task is *)
(* dropped, and no handler asks which task a message comes from. So the    *)
(* socket keeps notifying for as long as it can (it can open while         *)
(* connecting, report an error or close until it has closed, deliver       *)
(* frames while open), with or without its task in the slot. An error it   *)
(* reports need not be its end.                                            *)
(***************************************************************************)
EXTENDS Integers, Sequences, FiniteSets, TLC

VARIABLES state, symbol_to_add, websocket_task, storage_service, storage,
          transport, subscribed, view, panicked, last

vars == <<state, symbol_to_add, websocket_task, storage_service, storage,
          transport, subscribed, view, panicked, last>>

(* ------------------------------ bounds -------------------------------- *)
\* entries of the tracked list, and ticks held in the history cache
MaxTracked == 3
MaxStored == 2
\* inserts per symbol into a history cache on its own (SpecHist)
MaxInserts == 27
\* the largest finite f32, scaled down: a number above it read into an f32
\* is infinite
F32_MAX == 100

(* ---------------------------- value sets ------------------------------ *)
Symbols == {"A", "B"}
ApiKeys == {"k"}
INVALID_SYMBOL == "Invalid symbol"
ErrorMessages == {INVALID_SYMBOL, "Other error"}
\* Option<T>: None is the empty tuple, Some(x) the one-element tuple.
None == <<>>
Some(x) == <<x>>

\* struct TickerInfo: one tick as the feed supplies it.
TickerInfo(s, p, v, t) == [symbol |-> s, price |-> p, volume |-> v, time |-> t]

\* f32::INFINITY and f32::NEG_INFINITY
Infinity == F32_MAX + 1
NegInfinity == 0 - Infinity

\* A JSON number x read into Price(f32) or Volume(f32): the number is parsed
\* as f64 and cast, and the cast of a number beyond the f32 range, on either
\* side, is infinite.
F32(x) ==
    IF x > F32_MAX THEN Infinity
    ELSE IF x < 0 - F32_MAX THEN NegInfinity
    ELSE x

\* A tick {"s": s, "p": p, "v": v, "t": t} of a trade frame, deserialised.
Decode(s, p, v, t) == TickerInfo(s, F32(p), F32(v), t)

\* enum Request
Subscribe(s) == [type |-> "subscribe", symbol |-> s]
Unsubscribe(s) == [type |-> "unsubscribe", symbol |-> s]

(* --------------------------- TickerHistory ---------------------------- *)
MAX_HISTORY == 25

\* TickerHistory::new : the empty map.
NewHistory == [s \in {} |-> <<>>]

\* VecDeque::push_front
PushFront(queue, x) == <<x>> \o queue

\* VecDeque::pop_back
PopBack(queue) == SubSeq(queue, 1, Len(queue) - 1)

\* Insert with the eviction test off by one (>= for >): the cap becomes 24.
Mut_InsertEvictsEarly(symbol_to_history, ticker_info) ==
    LET symbol == ticker_info.symbol IN
    IF symbol \in DOMAIN symbol_to_history
    THEN LET queue == PushFront(symbol_to_history[symbol], ticker_info) IN
         [symbol_to_history EXCEPT
             ![symbol] = IF Len(queue) >= MAX_HISTORY THEN PopBack(queue) ELSE queue]
    ELSE symbol_to_history @@ (symbol :> PushFront(<<>>, ticker_info))

\* TickerHistory::insert
Insert(symbol_to_history, ticker_info) ==
    LET symbol == ticker_info.symbol IN
    IF symbol \in DOMAIN symbol_to_history
    THEN LET queue == PushFront(symbol_to_history[symbol], ticker_info) IN
         [symbol_to_history EXCEPT
             ![symbol] = IF Len(queue) > MAX_HISTORY THEN PopBack(queue) ELSE queue]
    ELSE symbol_to_history @@ (symbol :> PushFront(<<>>, ticker_info))

\* TickerHistory::remove
Remove(symbol_to_history, symbol) ==
    [s \in DOMAIN symbol_to_history \ {symbol} |-> symbol_to_history[s]]

\* TickerHistory::get : Some(queue) or None
Get(symbol_to_history, symbol) ==
    IF symbol \in DOMAIN symbol_to_history
    THEN Some(symbol_to_history[symbol]) ELSE None

\* The queue the cache holds for s, empty when it holds none.
Queue(symbol_to_history, s) ==
    IF s \in DOMAIN symbol_to_history THEN symbol_to_history[s] ELSE <<>>

(* ------------------------------- State -------------------------------- *)
\* The state Model::create falls back to.
EmptyState == [api_key |-> "", tracked |-> <<>>, history |-> NewHistory]

\* add_symbol that skips a symbol the list already holds.
Mut_AddSymbolOnce(st, symbol) ==
    IF \E i \in 1..Len(st.tracked) : st.tracked[i] = symbol THEN st
    ELSE [st EXCEPT !.tracked = Append(@, symbol)]

\* State::add_symbol
AddSymbol(st, symbol) == [st EXCEPT !.tracked = Append(@, symbol)]

\* last_added reading the first entry (first for last).
Mut_LastAddedIsFirst(st) ==
    IF st.tracked = <<>> THEN None ELSE Some(st.tracked[1])

\* State::last_added : Some(symbol) or None
LastAdded(st) ==
    IF st.tracked = <<>> THEN None ELSE Some(st.tracked[Len(st.tracked)])

\* State::remove_last_added : Vec::pop, nothing else.
RemoveLastAdded(st) ==
    IF st.tracked = <<>> THEN st
    ELSE [st EXCEPT !.tracked = SubSeq(@, 1, Len(@) - 1)]

\* Vec::swap_remove for Vec::remove: the last entry takes the removed place.
Mut_VecSwapRemove(v, idx) ==
    IF idx + 1 = Len(v) THEN SubSeq(v, 1, idx)
    ELSE SubSeq(v, 1, idx) \o <<v[Len(v)]>> \o SubSeq(v, idx + 2, Len(v) - 1)

\* Vec::remove(idx), idx counted from 0.
VecRemove(v, idx) == SubSeq(v, 1, idx) \o SubSeq(v, idx + 2, Len(v))

\* State::untrack_symbol, for idx < len: the new state and the UntrackResult.
UntrackSymbol(st, idx) ==
    LET removed_symbol == st.tracked[idx + 1]
        rest == VecRemove(st.tracked, idx)
        last_for_symbol == ~ \E i \in 1..Len(rest) : rest[i] = removed_symbol
    IN  [state |-> [st EXCEPT !.tracked = rest,
                              !.history = IF last_for_symbol
                                          THEN Remove(@, removed_symbol) ELSE @],
         is_last |-> last_for_symbol,
         symbol |-> removed_symbol]

\* State::add_history
AddHistory(st, ticker_info) == [st EXCEPT !.history = Insert(@, ticker_info)]

\* The loop over a trade batch run from the last tick to the first.
RECURSIVE Mut_AddAllBackwards(_, _)
Mut_AddAllBackwards(st, tickers_data) ==
    IF tickers_data = <<>> THEN st
    ELSE Mut_AddAllBackwards(
             AddHistory(st, tickers_data[Len(tickers_data)]),
             SubSeq(tickers_data, 1, Len(tickers_data) - 1))

\* The loop over a trade batch in update: add_history for each tick in order.
RECURSIVE AddAll(_, _)
AddAll(st, tickers_data) ==
    IF tickers_data = <<>> THEN st
    ELSE AddAll(AddHistory(st, Head(tickers_data)), Tail(tickers_data))

(* ----------------------------- persistence ---------------------------- *)
\* A JSON value that is null, and one that is the number x.
JsonNull == <<>>
JsonNumber(x) == <<x>>

\* An f32 written by serde_json: a finite value as its number, an infinite
\* one as null.
WriteF32(x) == IF x \in {Infinity, NegInfinity} THEN JsonNull ELSE JsonNumber(x)

\* A tick written as JSON.
WriteTick(tick) ==
    [s |-> tick.symbol, p |-> WriteF32(tick.price), v |-> WriteF32(tick.volume),
     t |-> tick.time]

\* A tick read back; None when p or v is not a number.
ReadTick(j) ==
    IF j.p = JsonNull \/ j.v = JsonNull THEN None
    ELSE Some(TickerInfo(j.s, F32(j.p[1]), F32(j.v[1]), j.t))

\* Json(&self.state): the blob written to storage. The history map is written
\* as an object, a set of key/value members.
Json(st) ==
    [kind |-> "json",
     api_key |-> st.api_key,
     tracked |-> st.tracked,
     symbol_to_history |->
         {<<s, [i \in 1..Len(st.history[s]) |-> WriteTick(st.history[s][i])]>> :
             s \in DOMAIN st.history}]

\* No blob under the key.
Absent == [kind |-> "absent"]

\* s.restore(STATE_STORAGE_KEY) read as Json(Ok(restored)); None when the key is
\* missing or the blob does not decode.
Restore(blob) ==
    IF blob.kind # "json" THEN None
    ELSE IF \E m \in blob.symbol_to_history :
                \E i \in 1..Len(m[2]) : ReadTick(m[2][i]) = None
    THEN None
    ELSE Some([api_key |-> blob.api_key,
               tracked |-> blob.tracked,
               history |->
                   [s \in {m[1] : m \in blob.symbol_to_history} |->
                       LET queue == (CHOOSE m \in blob.symbol_to_history :
                                         m[1] = s)[2]
                       IN  [i \in 1..Len(queue) |-> ReadTick(queue[i])[1]]]])

\* persist_state that never reaches the store.
Mut_PersistNothing(service, blob, st) == blob

\* Model::persist_state : what storage holds afterwards.
PersistState(service, blob, st) == IF service THEN Json(st) ELSE blob

(* -------------------------------- view -------------------------------- *)
\* What view() renders that decides which messages the user can send:
\* one untrack button per tracked entry, and the connect/disconnect button.
View(st, task) == [n |-> Len(st.tracked), ws_connected |-> task # None]

\* yew renders after update returns true.
Render(should_render, st, task) == IF should_render THEN View(st, task) ELSE view

(* ------------------------------ Init ---------------------------------- *)
\* States an earlier run can have stored.
StoredStates ==
    {[api_key |-> "k", tracked |-> <<"A", "B">>,
      history |-> ("A" :> <<TickerInfo("A", 1, 1, 1)>>)]}

\* What a handler did, besides changing the state: the requests it handed to
\* websocket_task.send, the prompts it showed, what update returned, and the
\* inputs it was given.
Event(op) ==
    [op |-> op, sent |-> <<>>, confirms |-> <<>>, alerts |-> 0, render |-> TRUE,
     connect |-> "none", held |-> None, idx |-> -1, is_last |-> FALSE,
     symbol |-> "", answer |-> FALSE, message |-> "", batch |-> <<>>]

\* Model::create
Init ==
    /\ storage_service \in BOOLEAN
    /\ storage \in {Absent} \cup {Json(s) : s \in StoredStates}
    /\ (~storage_service => storage = Absent)
    /\ state = IF storage_service /\ Restore(storage) # None
               THEN Restore(storage)[1] ELSE EmptyState
    /\ symbol_to_add = ""
    /\ websocket_task = None
    /\ transport = "none"
    /\ subscribed = {}
    /\ view = View(state, None)
    /\ panicked = FALSE
    /\ last = Event("create")

(* ------------------------------ the feed ------------------------------ *)
\* websocket_task.send(Json(&request)) on a socket in ready state `ready`: the
\* feed sees the request only on an open socket.
FeedAfter(subs, ready, request) ==
    IF ready # "open" THEN subs
    ELSE IF request.type = "subscribe" THEN subs \cup {request.symbol}
    ELSE subs \ {request.symbol}

\* The Subscribe requests of the loop over state.tracked in Msg::WsOpened.
SubscribeAll(tracked) == [i \in 1..Len(tracked) |-> Subscribe(tracked[i])]

\* The prompts of DialogService::confirm.
InvalidSymbolPrompt(symbol) == [prompt |-> "untrack last added", symbol |-> symbol]
WsFailedPrompt == [prompt |-> "websocket failed, reconnect"]

(* ------------------------------ update -------------------------------- *)
\* Msg::ApiKeyUpdate(key): the api key input, disabled while ws_connected.
ApiKeyUpdate(key) ==
    /\ ~panicked
    /\ ~view.ws_connected
    /\ state' = [state EXCEPT !.api_key = key]
    /\ storage' = PersistState(storage_service, storage, state')
    /\ view' = Render(TRUE, state', websocket_task)
    /\ last' = Event("ApiKeyUpdate")
    /\ UNCHANGED <<symbol_to_add, websocket_task, storage_service, transport,
                   subscribed, panicked>>

\* The task WebSocketService::connect returns: not the one held.
NewTask(held) == IF held = Some(1) THEN 2 ELSE 1

\* connect_to_api returning false after a successful connect: no re-render.
Mut_ConnectReturnsFalse(op, confirms, answer, ready, ok) ==
    LET ev == [Event(op) EXCEPT !.confirms = confirms, !.answer = answer,
                                !.held = websocket_task]
    IN  IF ok
        THEN /\ websocket_task' = Some(NewTask(websocket_task))
             /\ transport' = "connecting"
             /\ subscribed' = {}
             /\ view' = Render(FALSE, state, websocket_task')
             /\ last' = [ev EXCEPT !.connect = "ok", !.render = FALSE]
        ELSE /\ UNCHANGED websocket_task
             /\ transport' = ready
             /\ subscribed' = IF ready = "open" THEN subscribed ELSE {}
             /\ view' = Render(FALSE, state, websocket_task)
             /\ last' = [ev EXCEPT !.connect = "failed", !.alerts = 1,
                                   !.render = FALSE]

\* Model::connect_to_api, called from `op` after the prompts `confirms`, with
\* the socket created last in ready state `ready`; `ok` is whether
\* WebSocketService::connect returns a task. A new task comes with a new
\* socket, and the model follows that one from then on.
ConnectToApi(op, confirms, answer, ready, ok) ==
    LET ev == [Event(op) EXCEPT !.confirms = confirms, !.answer = answer,
                                !.held = websocket_task]
    IN  IF ok
        THEN /\ websocket_task' = Some(NewTask(websocket_task))
             /\ transport' = "connecting"
             /\ subscribed' = {}
             /\ view' = Render(TRUE, state, websocket_task')
             /\ last' = [ev EXCEPT !.connect = "ok"]
        ELSE /\ UNCHANGED websocket_task
             /\ transport' = ready
             /\ subscribed' = IF ready = "open" THEN subscribed ELSE {}
             /\ view' = Render(FALSE, state, websocket_task)
             /\ last' = [ev EXCEPT !.connect = "failed", !.alerts = 1,
                                   !.render = FALSE]

\* Msg::ApiKeyConnect: the connect button, or Enter in the api key input.
ApiKeyConnect(ok) ==
    /\ ~panicked
    /\ ~view.ws_connected
    /\ ConnectToApi("ApiKeyConnect", <<>>, FALSE, transport, ok)
    /\ UNCHANGED <<state, symbol_to_add, storage_service, storage, panicked>>

\* Msg::ApiKeyDisconnect: the disconnect button. Only the slot is emptied.
ApiKeyDisconnect ==
    /\ ~panicked
    /\ view.ws_connected
    /\ websocket_task' = None
    /\ view' = Render(TRUE, state, websocket_task')
    /\ last' = Event("ApiKeyDisconnect")
    /\ UNCHANGED <<state, symbol_to_add, storage_service, storage, transport,
                   subscribed, panicked>>

\* Msg::UpdateSymbolToTrack(symbol): typing in the ticker input.
UpdateSymbolToTrack(symbol) ==
    /\ ~panicked
    /\ symbol # symbol_to_add
    /\ symbol_to_add' = symbol
    /\ view' = Render(TRUE, state, websocket_task)
    /\ last' = Event("UpdateSymbolToTrack")
    /\ UNCHANGED <<state, websocket_task, storage_service, storage, transport,
                   subscribed, panicked>>

\* TrackSymbol that leaves subscribing to the next onOpen: it sends nothing.
Mut_TrackSymbolSilent ==
    /\ ~panicked
    /\ IF symbol_to_add = ""
       THEN /\ view' = Render(FALSE, state, websocket_task)
            /\ last' = [Event("TrackSymbol") EXCEPT !.render = FALSE]
            /\ UNCHANGED <<state, symbol_to_add, storage>>
       ELSE /\ Len(state.tracked) < MaxTracked
            /\ state' = AddSymbol(state, symbol_to_add)
            /\ symbol_to_add' = ""
            /\ last' = [Event("TrackSymbol") EXCEPT !.symbol = symbol_to_add]
            /\ storage' = PersistState(storage_service, storage, state')
            /\ view' = Render(TRUE, state', websocket_task)
    /\ UNCHANGED <<websocket_task, storage_service, transport, subscribed,
                   panicked>>

\* Msg::TrackSymbol
TrackSymbol ==
    /\ ~panicked
    /\ IF symbol_to_add = ""
       THEN /\ view' = Render(FALSE, state, websocket_task)
            /\ last' = [Event("TrackSymbol") EXCEPT !.render = FALSE]
            /\ UNCHANGED <<state, symbol_to_add, storage, subscribed>>
       ELSE /\ Len(state.tracked) < MaxTracked
            /\ state' = AddSymbol(state, symbol_to_add)
            /\ symbol_to_add' = ""
            /\ LET sent == IF websocket_task # None
                           THEN <<Subscribe(symbol_to_add)>> ELSE <<>>
               IN  /\ subscribed' = IF sent = <<>> THEN subscribed
                                     ELSE FeedAfter(subscribed, transport, sent[1])
                   /\ last' = [Event("TrackSymbol") EXCEPT
                                  !.sent = sent, !.symbol = symbol_to_add]
            /\ storage' = PersistState(storage_service, storage, state')
            /\ view' = Render(TRUE, state', websocket_task)
    /\ UNCHANGED <<websocket_task, storage_service, transport, panicked>>

\* Msg::UnTrackSymbolAtIdx(idx): the close button rendered for entry idx.
\* Vec::remove panics when idx is out of range.
UnTrackSymbolAtIdx(idx) ==
    /\ ~panicked
    /\ idx < view.n
    /\ IF idx < Len(state.tracked)
       THEN LET result == UntrackSymbol(state, idx)
                sent == IF result.is_last /\ websocket_task # None
                        THEN <<Unsubscribe(result.symbol)>> ELSE <<>>
            IN  /\ state' = result.state
                /\ subscribed' = IF sent = <<>> THEN subscribed
                                  ELSE FeedAfter(subscribed, transport, sent[1])
                /\ storage' = PersistState(storage_service, storage, state')
                /\ view' = Render(TRUE, state', websocket_task)
                /\ last' = [Event("UnTrackSymbolAtIdx") EXCEPT
                               !.sent = sent, !.idx = idx,
                               !.is_last = result.is_last,
                               !.symbol = result.symbol]
                /\ UNCHANGED panicked
       ELSE /\ panicked' = TRUE
            /\ last' = [Event("UnTrackSymbolAtIdx") EXCEPT
                           !.idx = idx, !.render = FALSE]
            /\ UNCHANGED <<state, subscribed, storage, view>>
    /\ UNCHANGED <<symbol_to_add, websocket_task, storage_service, transport>>

\* All sequences over S of length at most n.
RECURSIVE SeqsOf(_, _)
SeqsOf(S, n) ==
    IF n = 0 THEN {<<>>}
    ELSE LET shorter == SeqsOf(S, n - 1)
         IN  shorter \cup {Append(q, x) : q \in {r \in shorter : Len(r) = n - 1},
                                         x \in S}

\* Number of ticks the history cache holds.
RECURSIVE Stored(_)
Stored(symbol_to_history) ==
    IF DOMAIN symbol_to_history = {} THEN 0
    ELSE LET s == CHOOSE x \in DOMAIN symbol_to_history : TRUE
         IN  Len(symbol_to_history[s]) + Stored(Remove(symbol_to_history, s))

\* The ticks the feed sends for the symbols `symbols`, in that order, to a
\* client holding `symbol_to_history`: the feed numbers the trades of a symbol,
\* so every tick differs from the ticks the client holds for that symbol.
RECURSIVE BatchOf(_, _)
BatchOf(symbol_to_history, symbols) ==
    IF symbols = <<>> THEN <<>>
    ELSE LET s == Head(symbols)
             held == IF s \in DOMAIN symbol_to_history
                     THEN Len(symbol_to_history[s]) ELSE 0
             tick == Decode(s, held + 1, 1, held + 1)
         IN  <<tick>> \o BatchOf(Insert(symbol_to_history, tick), Tail(symbols))

\* The trade batches the feed can send: ticks of symbols it was asked for.
Batches ==
    {BatchOf(state.history, symbols) :
        symbols \in SeqsOf(subscribed, MaxStored - Stored(state.history)) \ {<<>>}}

\* Msg::WsIncoming(Ok(WsMessage::Error { message })); `answer` is what the user
\* answers if asked.
WsIncomingError(message, answer) ==
    /\ ~panicked
    /\ transport = "open"
    /\ LET ask == message = INVALID_SYMBOL /\ LastAdded(state) # None
           delete_last == ask /\ answer
       IN  /\ state' = IF delete_last THEN RemoveLastAdded(state) ELSE state
           /\ storage' = IF delete_last
                         THEN PersistState(storage_service, storage, state')
                         ELSE storage
           /\ view' = Render(TRUE, state', websocket_task)
           /\ last' = [Event("WsIncomingError") EXCEPT
                          !.message = message,
                          !.answer = delete_last,
                          !.confirms = IF ask
                                       THEN <<InvalidSymbolPrompt(LastAdded(state)[1])>>
                                       ELSE <<>>]
    /\ UNCHANGED <<symbol_to_add, websocket_task, storage_service, transport,
                   subscribed, panicked>>

\* Msg::WsIncoming(Ok(WsMessage::Trade { data }))
WsIncomingTrade(tickers_data) ==
    /\ ~panicked
    /\ transport = "open"
    /\ state' = AddAll(state, tickers_data)
    /\ storage' = PersistState(storage_service, storage, state')
    /\ view' = Render(TRUE, state', websocket_task)
    /\ last' = [Event("WsIncomingTrade") EXCEPT !.batch = tickers_data]
    /\ UNCHANGED <<symbol_to_add, websocket_task, storage_service, transport,
                   subscribed, panicked>>

\* Msg::WsIncoming(Ok(WsMessage::Ping))
WsIncomingPing ==
    /\ ~panicked
    /\ transport = "open"
    /\ view' = Render(FALSE, state, websocket_task)
    /\ last' = [Event("WsIncomingPing") EXCEPT !.render = FALSE]
    /\ UNCHANGED <<state, symbol_to_add, websocket_task, storage_service, storage,
                   transport, subscribed, panicked>>

\* A frame that does not decode handled as a dead connection: the task is
\* dropped.
Mut_MalformedDropsTask ==
    /\ ~panicked
    /\ transport = "open"
    /\ websocket_task' = None
    /\ transport' = "none"
    /\ subscribed' = {}
    /\ view' = Render(TRUE, state, websocket_task')
    /\ last' = Event("WsIncomingMalformed")
    /\ UNCHANGED <<state, symbol_to_add, storage_service, storage, panicked>>

\* Msg::WsIncoming(Err(_)): a frame that does not decode.
WsIncomingMalformed ==
    /\ ~panicked
    /\ transport = "open"
    /\ view' = Render(FALSE, state, websocket_task)
    /\ last' = [Event("WsIncomingMalformed") EXCEPT !.render = FALSE]
    /\ UNCHANGED <<state, symbol_to_add, websocket_task, storage_service, storage,
                   transport, subscribed, panicked>>

\* Msg::WsOpened: the socket opened. The requests go to the task in the slot,
\* which, when there is one, is the task of this socket.
WsOpened ==
    /\ ~panicked
    /\ transport = "connecting"
    /\ transport' = "open"
    /\ IF websocket_task # None
       THEN /\ subscribed' = {state.tracked[i] : i \in 1..Len(state.tracked)}
            /\ last' = [Event("WsOpened") EXCEPT
                           !.sent = SubscribeAll(state.tracked),
                           !.held = websocket_task]
       ELSE /\ subscribed' = subscribed
            /\ last' = [Event("WsOpened") EXCEPT !.alerts = 1]
    /\ view' = Render(TRUE, state, websocket_task)
    /\ UNCHANGED <<state, symbol_to_add, websocket_task, storage_service, storage,
                   panicked>>

\* The ready state of the socket after it has notified Error or Closed: after
\* Closed, or an Error that ends it, it notifies no more; an Error reported for
\* a request that could not be sent leaves it as it was.
ReadyAfter(alive) == IF alive THEN transport ELSE "none"

\* WsDead that returns false after a declined retry: the task is dropped and
\* nothing is rendered.
Mut_WsDeadNoRender(answer, ok, alive) ==
    /\ ~panicked
    /\ transport \in {"connecting", "open"}
    /\ IF answer
       THEN ConnectToApi("WsDead", <<WsFailedPrompt>>, TRUE, ReadyAfter(alive), ok)
       ELSE /\ websocket_task' = None
            /\ transport' = ReadyAfter(alive)
            /\ subscribed' = IF transport' = "open" THEN subscribed ELSE {}
            /\ view' = Render(FALSE, state, websocket_task')
            /\ last' = [Event("WsDead") EXCEPT !.confirms = <<WsFailedPrompt>>,
                                               !.held = websocket_task,
                                               !.render = FALSE]
    /\ UNCHANGED <<state, symbol_to_add, storage_service, storage, panicked>>

\* WsDead that keeps the task when the user declines the retry.
Mut_WsDeadKeepsTask(answer, ok, alive) ==
    /\ ~panicked
    /\ transport \in {"connecting", "open"}
    /\ IF answer
       THEN ConnectToApi("WsDead", <<WsFailedPrompt>>, TRUE, ReadyAfter(alive), ok)
       ELSE /\ UNCHANGED websocket_task
            /\ transport' = ReadyAfter(alive)
            /\ subscribed' = IF transport' = "open" THEN subscribed ELSE {}
            /\ view' = Render(TRUE, state, websocket_task')
            /\ last' = [Event("WsDead") EXCEPT !.confirms = <<WsFailedPrompt>>,
                                               !.held = websocket_task]
    /\ UNCHANGED <<state, symbol_to_add, storage_service, storage, panicked>>

\* Msg::WsDead: the socket reported Error or Closed (`alive`: it goes on
\* after an Error); `answer` is the user's answer to the retry prompt, `ok`
\* whether the reconnect gets a task. The handler does not look at the slot
\* or at the socket before it asks.
WsDead(answer, ok, alive) ==
    /\ ~panicked
    /\ transport \in {"connecting", "open"}
    /\ IF answer
       THEN ConnectToApi("WsDead", <<WsFailedPrompt>>, TRUE, ReadyAfter(alive), ok)
       ELSE /\ websocket_task' = None
            /\ transport' = ReadyAfter(alive)
            /\ subscribed' = IF transport' = "open" THEN subscribed ELSE {}
            /\ view' = Render(TRUE, state, websocket_task')
            /\ last' = [Event("WsDead") EXCEPT !.confirms = <<WsFailedPrompt>>,
                                               !.held = websocket_task]
    /\ UNCHANGED <<state, symbol_to_add, storage_service, storage, panicked>>

\* Msg::Nope: a key other than Enter in one of the inputs.
Nope ==
    /\ ~panicked
    /\ view' = Render(TRUE, state, websocket_task)
    /\ last' = Event("Nope")
    /\ UNCHANGED <<state, symbol_to_add, websocket_task, storage_service, storage,
                   transport, subscribed, panicked>>

Next ==
    \/ \E key \in ApiKeys : ApiKeyUpdate(key)
    \/ \E ok \in BOOLEAN : ApiKeyConnect(ok)
    \/ ApiKeyDisconnect
    \/ \E symbol \in Symbols \cup {""} : UpdateSymbolToTrack(symbol)
    \/ TrackSymbol
    \/ \E idx \in 0..(MaxTracked - 1) : UnTrackSymbolAtIdx(idx)
    \/ \E message \in ErrorMessages :
          \E answer \in (IF message = INVALID_SYMBOL THEN BOOLEAN ELSE {FALSE}) :
              WsIncomingError(message, answer)
    \/ \E tickers_data \in Batches : WsIncomingTrade(tickers_data)
    \/ WsIncomingPing
    \/ WsIncomingMalformed
    \/ WsOpened
    \/ \E answer \in BOOLEAN, alive \in BOOLEAN :
          \E ok \in (IF answer THEN BOOLEAN ELSE {FALSE}) :
              WsDead(answer, ok, alive)
    \/ Nope

Spec == Init /\ [][Next]_vars

(* ------------------- restarting the program (SpecRestart) -------------- *)
\* The prices a trade frame can carry on the wire: an everyday one and a
\* number beyond the f32 range on either side.
WirePrices == {1, 2 * F32_MAX, 0 - 2 * F32_MAX}

\* The one-tick trade batches the feed can send for the symbols it was asked
\* for, the ticks of a symbol numbered by their time.
RestartBatches ==
    IF Stored(state.history) >= MaxStored THEN {}
    ELSE {<<Decode(s, p, 1, Len(Queue(state.history, s)) + 1)>> :
             s \in subscribed, p \in WirePrices}

\* The page is loaded again: Model::create runs on what local storage holds.
Create ==
    /\ state' = IF storage_service /\ Restore(storage) # None
                THEN Restore(storage)[1] ELSE EmptyState
    /\ symbol_to_add' = ""
    /\ websocket_task' = None
    /\ transport' = "none"
    /\ subscribed' = {}
    /\ view' = View(state', None)
    /\ panicked' = FALSE
    /\ last' = Event("create")
    /\ UNCHANGED <<storage_service, storage>>

\* A run that tracks symbols, connects and receives trades, and is restarted
\* at any point.
NextRestart ==
    \/ \E symbol \in Symbols : UpdateSymbolToTrack(symbol)
    \/ TrackSymbol
    \/ ApiKeyConnect(TRUE)
    \/ WsOpened
    \/ \E tickers_data \in RestartBatches : WsIncomingTrade(tickers_data)
    \/ Create

SpecRestart == Init /\ [][NextRestart]_vars

(* ---------------- the history cache on its own (SpecHist) -------------- *)
\* Times the inserted records carry, by arrival number (repeating): the
\* spec's 5, 3, 10, rising times, falling times and equal times.
TimePatterns == {<<5, 3, 10>>, <<1, 2, 3>>, <<3, 2, 1>>, <<7, 7, 7>>}

\* The k-th record inserted for symbol s when the times follow `times`.
Record(times, s, k) == TickerInfo(s, k, 1, times[((k - 1) % Len(times)) + 1])

\* A new cache, not yet inserted into; last.n counts the inserts per symbol.
InitHist ==
    /\ state = EmptyState
    /\ symbol_to_add = ""
    /\ websocket_task = None
    /\ storage_service = FALSE
    /\ storage = Absent
    /\ transport = "none"
    /\ subscribed = {}
    /\ view = View(state, None)
    /\ panicked = FALSE
    /\ \E times \in TimePatterns :
          last = [op |-> "new", times |-> times, n |-> [s \in Symbols |-> 0]]

\* State::add_history, that is TickerHistory::insert, of the next record of s.
HistInsert(s) ==
    /\ last.n[s] < MaxInserts
    /\ state' = AddHistory(state, Record(last.times, s, last.n[s] + 1))
    /\ last' = [last EXCEPT !.op = "insert", !.n[s] = @ + 1]
    /\ UNCHANGED <<symbol_to_add, websocket_task, storage_service, storage,
                   transport, subscribed, view, panicked>>

NextHist == \E s \in Symbols : HistInsert(s)

SpecHist == InitHist /\ [][NextHist]_vars

(* ------------------------------- claims ------------------------------- *)
Min(a, b) == IF a < b THEN a ELSE b

\* C2: after n inserts for a symbol into a cache that started empty, however
\* interleaved with inserts for other symbols and whatever times the records
\* carry, the symbol's sequence is the last min(25, n) records inserted for
\* it, newest first (and the symbol has no sequence when n = 0).
C2_HistoryIsNewestFirstCapped ==
    \A s \in Symbols :
        LET n == last.n[s] IN
        IF n = 0 THEN Get(state.history, s) = None
        ELSE /\ Get(state.history, s) # None
             /\ Len(state.history[s]) = Min(25, n)
             /\ \A i \in 1..Min(25, n) :
                    state.history[s][i] = Record(last.times, s, n - i + 1)

\* C2 witness: more than 25 inserts for A, interleaved with inserts for B, with
\* a record in front of one that carries a later time.
C2_Witness ==
    /\ last.n["A"] > 25
    /\ last.n["B"] \in 1..24
    /\ Len(state.history["A"]) = 25
    /\ state.history["A"][1].time < state.history["A"][2].time

Tracked(s) == \E i \in 1..Len(state.tracked) : state.tracked[i] = s

\* The connection state of the spec: no task is Disconnected; a task whose
\* socket has not opened is Connecting; a task whose socket is open is
\* Connected.
Disconnected == websocket_task = None
Connecting == websocket_task # None /\ transport = "connecting"
Connected == websocket_task # None /\ transport = "open"

\* C1: in every reachable state a symbol with no entry in the tracked list has
\* no entry in the history cache.
C1_UntrackedHasNoHistory ==
    \A s \in Symbols : ~Tracked(s) => Get(state.history, s) = None

\* C3: after a connect attempt whose transport cannot be constructed an alert
\* was raised and no task is held, whether the attempt came from the user or
\* from the retry prompt.
C3_FailedConnectIsDisconnected ==
    last.connect = "failed" => last.alerts = 1 /\ Disconnected

C5_ConnectOnlyWithEmptySlot ==
    last.connect # "none" => last.held = None

\* C5 amended: the user's connect is made only with no task held, so a
\* connect made with a task held is the one re-entered from the retry prompt;
\* and after a connect that got a task the slot holds that task and not the
\* one held before.
C5_ConnectTakesOverTheSlot ==
    /\ last.op = "ApiKeyConnect" => last.held = None
    /\ (last.connect # "none" /\ last.held # None) => last.op = "WsDead"
    /\ last.connect = "ok" =>
           /\ websocket_task = Some(NewTask(last.held))
           /\ websocket_task # last.held

\* C5 witness: the retry got a new task while the failed one was still held.
C5_Witness ==
    /\ last.op = "WsDead" /\ last.connect = "ok"
    /\ last.held # None /\ websocket_task # last.held /\ Connecting

\* C6 as claimed: handling onError/onClose asks one retry confirmation; after
\* yes a new task is held and its socket is connecting, after no no task is
\* held; the tracked list and the history cache are as before.
C6_RetryYesIsConnecting ==
    [][last'.op = "WsDead" =>
          /\ last'.confirms = <<WsFailedPrompt>>
          /\ last'.answer =>
                 /\ websocket_task' # None /\ websocket_task' # websocket_task
                 /\ transport' = "connecting"
          /\ ~last'.answer => websocket_task' = None
          /\ state'.tracked = state.tracked
          /\ state'.history = state.history]_vars

\* C6 amended: handling onError/onClose asks one retry confirmation; after yes
\* connect_to_api has been entered and, when the transport was constructed, a
\* new task is held and its socket is connecting; after no no task is held and
\* no connect was attempted; the tracked list and the history cache are as
\* before.
C6_RetryYesReentersConnect ==
    [][last'.op = "WsDead" =>
          /\ last'.confirms = <<WsFailedPrompt>>
          /\ last'.answer =>
                 /\ last'.connect # "none"
                 /\ last'.connect = "ok" =>
                        /\ websocket_task' # None
                        /\ websocket_task' # websocket_task
                        /\ transport' = "connecting"
          /\ ~last'.answer => websocket_task' = None /\ last'.connect = "none"
          /\ state'.tracked = state.tracked
          /\ state'.history = state.history]_vars

\* C6 witness: the retry prompt was answered yes and a new task is connecting,
\* with symbols tracked and history held.
C6_Witness ==
    /\ last.op = "WsDead" /\ last.answer /\ last.connect = "ok"
    /\ Connecting /\ websocket_task # last.held
    /\ state.tracked # <<>> /\ DOMAIN state.history # {}

\* C7: untrackAt(idx) removes the entry at idx and keeps the others in order;
\* is_last is true exactly when no remaining entry is the removed symbol; the
\* removed symbol's history is dropped exactly when is_last, and every other
\* symbol's history is as before.
C7_UntrackRemovesOneEntry ==
    [][(last'.op = "UnTrackSymbolAtIdx" /\ ~panicked') =>
          LET i == last'.idx + 1
              removed == state.tracked[i]
              old == state.tracked
              new == state'.tracked
          IN  /\ Len(new) = Len(old) - 1
              /\ \A j \in 1..Len(new) : new[j] = IF j < i THEN old[j] ELSE old[j + 1]
              /\ last'.symbol = removed
              /\ last'.is_last = (\A j \in 1..Len(new) : new[j] # removed)
              /\ last'.is_last => Get(state'.history, removed) = None
              /\ ~last'.is_last =>
                     Get(state'.history, removed) = Get(state.history, removed)
              /\ \A s \in Symbols \ {removed} :
                     Get(state'.history, s) = Get(state.history, s)]_vars

\* C7 witness: the first of three entries was removed, the symbol is still
\* tracked by a later entry and keeps its history.
C7_Witness ==
    /\ last.op = "UnTrackSymbolAtIdx" /\ last.idx = 0 /\ ~last.is_last
    /\ Len(state.tracked) = 2 /\ state.tracked[1] # state.tracked[2]
    /\ Get(state.history, last.symbol) # None

\* C8: untrackAt sends Unsubscribe for the removed symbol exactly when the
\* removed entry was the last one of its symbol and the connection is
\* Connected, and sends nothing otherwise.
C8_UnsubscribeIffLastAndConnected ==
    (last.op = "UnTrackSymbolAtIdx" /\ ~panicked) =>
        last.sent = IF last.is_last /\ Connected
                    THEN <<Unsubscribe(last.symbol)>> ELSE <<>>

\* C9: an Error frame with the invalid-symbol message and a non-empty tracked
\* list shows one confirmation naming the last entry of the list; confirmed,
\* the last entry is removed and no request is sent; declined, or with another
\* message, or with nothing tracked, the tracked list, the history cache and
\* the connection are as before (and with another message or nothing tracked
\* no confirmation is shown).
C9_InvalidSymbolPopsLastAdded ==
    [][last'.op = "WsIncomingError" =>
          LET old == state.tracked
              asked == last'.message = "Invalid symbol" /\ old # <<>>
          IN  /\ last'.confirms = IF asked
                                  THEN <<InvalidSymbolPrompt(old[Len(old)])>>
                                  ELSE <<>>
              /\ last'.sent = <<>> /\ subscribed' = subscribed
              /\ last'.answer => asked
              /\ last'.answer => state'.tracked = SubSeq(old, 1, Len(old) - 1)
              /\ ~last'.answer =>
                     /\ state' = state
                     /\ websocket_task' = websocket_task
                     /\ transport' = transport]_vars

\* C9 witness: the prompt named the last of several tracked entries, was
\* confirmed, and the entries before it are still tracked.
C9_Witness ==
    /\ last.op = "WsIncomingError" /\ last.answer
    /\ Len(last.confirms) = 1
    /\ Len(state.tracked) = 2
    /\ last.confirms[1].symbol # state.tracked[1]

\* C10: with a store available, a handler that changes the session state
\* leaves its serialisation in the store, and whatever blob the store holds
\* after a handler is the serialisation of the state the handler left.
C10_StoreFollowsEveryMutation ==
    [][storage_service =>
          /\ state' # state => storage' = Json(state')
          /\ storage' # Absent => storage' = Json(state')]_vars

\* C10 witness: the confirmed removal of the only tracked entry was stored.
C10_Witness ==
    /\ last.op = "WsIncomingError" /\ last.answer
    /\ storage_service
    /\ state.tracked = <<>>
    /\ storage = Json(state)

\* C11: no handler panics and every untrackAt that is handled has an index
\* below the length of the tracked list; every handler other than a connect
\* that got a task and onOpen (the two steps into Connecting and Connected)
\* leaves the client Disconnected or leaves the connection as it was, its
\* socket still connecting or open.
C11_NoPanicStableState ==
    [][/\ ~panicked'
       /\ last'.op = "UnTrackSymbolAtIdx" => last'.idx < Len(state.tracked)
       /\ (last'.connect # "ok" /\ last'.op # "WsOpened") =>
              \/ websocket_task' = None
              \/ /\ websocket_task' = websocket_task
                 /\ transport' = transport
                 /\ transport \in {"connecting", "open"}]_vars

\* C12: handling a frame that does not decode, or a Ping, changes nothing:
\* the task and its socket, the tracked list, the history cache, the api key
\* and the stored blob are as before, no request is sent, the feed's
\* subscriptions are as before, and no prompt or alert is shown.
C12_UndecodableAndPingChangeNothing ==
    [][last'.op \in {"WsIncomingMalformed", "WsIncomingPing"} =>
          /\ websocket_task' = websocket_task
          /\ transport' = transport
          /\ state' = state
          /\ storage' = storage
          /\ last'.sent = <<>> /\ subscribed' = subscribed
          /\ last'.confirms = <<>> /\ last'.alerts = 0
          /\ last'.connect = "none"]_vars

\* C12 witness: a frame that does not decode was handled on an open
\* connection with symbols tracked, history held and a blob stored.
C12_Witness ==
    /\ last.op = "WsIncomingMalformed"
    /\ Connected
    /\ Len(state.tracked) = 2 /\ DOMAIN state.history # {}
    /\ storage = Json(state)

\* The ticks of symbol s in a batch, in the order of the batch.
TicksOf(batch, s) == SelectSeq(batch, LAMBDA tick : tick.symbol = s)

Reverse(q) == [i \in 1..Len(q) |-> q[Len(q) + 1 - i]]

\* C13: handling a Trade frame puts the ticks of the batch in front of what
\* the cache held for their symbol, the last tick of the batch first (at most
\* 25 kept), leaves the queues of symbols without a tick in the batch as they
\* were, changes neither the tracked list, the api key, the task nor its
\* socket, sends nothing, and stores the resulting state when there is a
\* store.
C13_TradeInsertsInArrayOrder ==
    [][last'.op = "WsIncomingTrade" =>
          /\ last'.batch # <<>>
          /\ \A s \in Symbols :
                LET ticks == TicksOf(last'.batch, s)
                    all == Reverse(ticks) \o Queue(state.history, s)
                IN  IF ticks = <<>>
                    THEN Get(state'.history, s) = Get(state.history, s)
                    ELSE Get(state'.history, s) =
                             Some(SubSeq(all, 1, Min(25, Len(all))))
          /\ state'.tracked = state.tracked
          /\ state'.api_key = state.api_key
          /\ websocket_task' = websocket_task
          /\ transport' = transport
          /\ last'.sent = <<>> /\ last'.connect = "none"
          /\ storage_service => storage' = Json(state')]_vars

\* C13 witness: a batch of two ticks of one symbol was handled; the second
\* tick of the batch is in front of the first, and the state was stored.
C13_Witness ==
    /\ last.op = "WsIncomingTrade"
    /\ Len(last.batch) = 2
    /\ last.batch[1].symbol = last.batch[2].symbol
    /\ last.batch[1] # last.batch[2]
    /\ state.history[last.batch[1].symbol] = <<last.batch[2], last.batch[1]>>
    /\ storage = Json(state)

\* C14: trackSymbol with an empty pending text changes neither the tracked
\* list, the history cache, the stored blob nor the pending text and sends
\* nothing; with a pending symbol it appends that symbol at the end of the
\* tracked list, whether or not the list already holds it, clears the pending
\* text, keeps the history cache, and sends at most one request: exactly one
\* Subscribe for the symbol when Connected, nothing when Disconnected.
C14_TrackAppendsAndSubscribes ==
    [][last'.op = "TrackSymbol" =>
          /\ websocket_task' = websocket_task /\ transport' = transport
          /\ IF symbol_to_add = ""
             THEN /\ state' = state
                  /\ storage' = storage
                  /\ symbol_to_add' = ""
                  /\ last'.sent = <<>> /\ subscribed' = subscribed
             ELSE /\ state'.tracked = state.tracked \o <<symbol_to_add>>
                  /\ state'.history = state.history
                  /\ symbol_to_add' = ""
                  /\ Connected => last'.sent = <<Subscribe(symbol_to_add)>>
                  /\ Disconnected => last'.sent = <<>>
                  /\ last'.sent \in {<<>>, <<Subscribe(symbol_to_add)>>}]_vars

\* C14 witness: a symbol the list already held was tracked again on an open
\* connection; it was appended and one Subscribe for it was sent.
C14_Witness ==
    /\ last.op = "TrackSymbol"
    /\ Connected
    /\ state.tracked = <<"A", "B", "A">>
    /\ last.sent = <<Subscribe("A")>>
    /\ symbol_to_add = ""

C16_RestartRoundTrip ==
    [][/\ last'.op = "create" =>
              /\ websocket_task' = None /\ transport' = "none"
              /\ last'.sent = <<>> /\ last'.connect = "none"
              /\ (storage_service /\ storage = Json(state)) =>
                     /\ state'.tracked = state.tracked
                     /\ state'.history = state.history
              /\ (~storage_service \/ storage = Absent) =>
                     /\ state'.tracked = <<>>
                     /\ state'.history = NewHistory
       /\ websocket_task = None =>
              /\ last'.sent = <<>>
              /\ last'.connect # "none" => last'.op = "ApiKeyConnect"]_vars

\* C17: whenever the connection is Connected, the feed has been sent, on the
\* socket of the held task, a Subscribe with no later Unsubscribe for every
\* symbol of the tracked list.
C17_TrackedIsSubscribedWhenConnected ==
    Connected => \A i \in 1..Len(state.tracked) : state.tracked[i] \in subscribed

\* C17 witness: on the connection that followed a reconnect, one of two
\* entries of a symbol was untracked; the symbol is still tracked and still
\* subscribed, next to a second tracked symbol.
C17_Witness ==
    /\ Connected /\ websocket_task = Some(2)
    /\ last.op = "UnTrackSymbolAtIdx" /\ ~last.is_last
    /\ Tracked(last.symbol) /\ last.symbol \in subscribed
    /\ \E s \in Symbols \ {last.symbol} : Tracked(s) /\ s \in subscribed

\* C18: whenever the connection is Connected, no symbol that has no entry in
\* the tracked list is still subscribed on the socket of the held task,
\* unless the upstream never accepted it; a symbol whose trades the cache
\* holds is one the upstream accepted.
C18_UntrackedIsUnsubscribedWhenConnected ==
    Connected =>
        \A s \in subscribed : Tracked(s) \/ Get(state.history, s) = None

\* C19: a handler that sent a Subscribe or an Unsubscribe sent it on the open
\* socket of the held task: none is sent while Disconnected, while
\* Connecting, or on a task whose socket has reported error or close.
C19_RequestsOnlyOnOpenSocket ==
    last.sent # <<>> => Connected

C21_NoRenderMeansViewInputsUnchanged ==
    [][/\ ~last'.render =>
              /\ state' = state
              /\ symbol_to_add' = symbol_to_add
              /\ (websocket_task' = None) = (websocket_task = None)
       /\ view' = View(state', websocket_task')]_vars

\* C21 witness: the retry after a dead connection failed to get a task and
\* returned false; the old task is still held, the disconnect button is still
\* shown, and the untrack buttons match the tracked list.
C21_Witness ==
    /\ last.op = "WsDead" /\ last.connect = "failed" /\ ~last.render
    /\ websocket_task # None /\ view.ws_connected
    /\ Len(state.tracked) = 2 /\ view.n = 2
    /\ symbol_to_add # ""

====
